---- MODULE Spec2Model ----
(***************************************************************************)
(* Model of the daily-log side panel: src/popup.js and its documented      *)
(* revision src/unnamed/part_000.  Strings are sequences of character      *)
(* codes, JavaScript objects are heap cells named by an identity, and the  *)
(* extension storage holds values (structured copies), never references.   *)
(***************************************************************************)
EXTENDS Integers, Sequences, FiniteSets, TLC

\* ------------------------------------------------------------------ bounds
MaxTicks == 1
MaxSessions == 2
MaxSubmits == 2
MaxFailures == 1

\* The instant the first panel session is opened: 2024-01-15T23:59:59Z.
StartInstant == 1705363199
\* Clock advances offered between events (seconds).
TickDeltas == {36001}
\* Offsets of local time from UTC, in minutes: UTC+05:30, where the local
\* date is a day ahead of the UTC date at StartInstant and equal to it once
\* the clock has advanced.
TzOffsets == {330}

\* ------------------------------------------------------------- characters
SP == 32
ChA == 97
ChB == 98
Dash == 45
Colon == 58
Zero == 48

\* Values a user can have typed into the textarea when a submit event fires.
InputValues ==
  { <<>>, <<SP>>, <<ChA>>, <<SP, ChB, SP>> }

\* --------------------------------------------------------- JS objects
\* The object literal {} : a mapping with no keys.
EmptyObj == [k \in {} |-> <<>>]

\* obj[k] = v   (creates the key or overwrites it)
Put(obj, k, v) == [x \in (DOMAIN obj) \cup {k} |-> IF x = k THEN v ELSE obj[x]]

\* A string is truthy iff it is non-empty; undefined is falsy.
TruthyStr(s) == Len(s) > 0

\* !obj[k] for an object whose values are strings
Falsy(obj, k) == IF k \in DOMAIN obj THEN ~TruthyStr(obj[k]) ELSE TRUE

\* ------------------------------------------------------------ strings
\* String.prototype.trim over the modelled alphabet (SP is the only
\* whitespace character in it).
RECURSIVE TrimLeft(_)
TrimLeft(s) == IF s # <<>> /\ Head(s) = SP THEN TrimLeft(Tail(s)) ELSE s

RECURSIVE TrimRight(_)
TrimRight(s) ==
  IF s # <<>> /\ s[Len(s)] = SP THEN TrimRight(SubSeq(s, 1, Len(s) - 1)) ELSE s

Trim(s) == TrimRight(TrimLeft(s))

\* a.localeCompare(b) for strings of digits, '-' and ':' : code-point
\* lexicographic comparison, result in {-1, 0, 1}.
RECURSIVE LocaleCompare(_, _)
LocaleCompare(a, b) ==
  IF a = <<>> /\ b = <<>> THEN 0
  ELSE IF a = <<>> THEN -1
  ELSE IF b = <<>> THEN 1
  ELSE IF Head(a) < Head(b) THEN -1
  ELSE IF Head(a) > Head(b) THEN 1
  ELSE LocaleCompare(Tail(a), Tail(b))

\* Two decimal digits, zero padded.
Pad2(n) == << Zero + ((n \div 10) % 10), Zero + (n % 10) >>

\* Four decimal digits, zero padded.
Pad4(n) == << Zero + ((n \div 1000) % 10), Zero + ((n \div 100) % 10),
              Zero + ((n \div 10) % 10), Zero + (n % 10) >>

\* --------------------------------------------------------------- Date
\* Proleptic Gregorian date of a day number counted from 1970-01-01.
CivilFromDays(days) ==
  LET z    == days + 719468
      era  == z \div 146097
      doe  == z - era * 146097
      yoe  == (doe - doe \div 1460 + doe \div 36524 - doe \div 146096) \div 365
      doy  == doe - (365 * yoe + yoe \div 4 - yoe \div 100)
      mp   == (5 * doy + 2) \div 153
      d    == doy - (153 * mp + 2) \div 5 + 1
      m    == IF mp < 10 THEN mp + 3 ELSE mp - 9
      y    == yoe + era * 400 + (IF m <= 2 THEN 1 ELSE 0)
  IN [year |-> y, month |-> m, day |-> d]

\* YYYY-MM-DD of the calendar day holding the given second count.
DateString(secs) ==
  LET c == CivilFromDays(secs \div 86400)
  IN Pad4(c.year) \o <<Dash>> \o Pad2(c.month) \o <<Dash>> \o Pad2(c.day)

\* HH:MM:SS of the given second count.
ClockString(secs) ==
  LET sod == secs % 86400
  IN Pad2(sod \div 3600) \o <<Colon>> \o Pad2((sod \div 60) % 60)
       \o <<Colon>> \o Pad2(sod % 60)

\* new Date().toISOString().slice(0, 10): the date in UTC.
ToISOStringSlice10(t, z) == DateString(t)

\* new Date().toTimeString().slice(0, 8): the time of day in local time.
ToTimeStringSlice8(t, z) == ClockString(t + z * 60)


\* ------------------------------------------------------------ sorting
\* Mutant of SortKeysDesc: the comparator's operands swapped, so the keys
\* come out oldest first.
RECURSIVE SortKeysDescSwapped(_)
SortKeysDescSwapped(S) ==
  IF S = {} THEN <<>>
  ELSE LET m == CHOOSE x \in S : \A y \in S : LocaleCompare(x, y) <= 0
       IN <<m>> \o SortKeysDescSwapped(S \ {m})

\* The keys of S ordered so that cmp(a, b) = keyB.localeCompare(keyA) is
\* never positive between neighbours: Array.prototype.sort with the
\* comparator of updateUIState.
RECURSIVE SortKeysDesc(_)
SortKeysDesc(S) ==
  IF S = {} THEN <<>>
  ELSE LET m == CHOOSE x \in S : \A y \in S : LocaleCompare(y, x) <= 0
       IN <<m>> \o SortKeysDesc(S \ {m})

\* Object.keys(o).sort(): ascending code-unit order.
RECURSIVE SortKeysAsc(_)
SortKeysAsc(S) ==
  IF S = {} THEN <<>>
  ELSE LET m == CHOOSE x \in S : \A y \in S : LocaleCompare(x, y) <= 0
       IN <<m>> \o SortKeysAsc(S \ {m})

\* Object.keys(logs).sort().at(-1); the empty string stands for undefined
\* (both are falsy, which is all the caller looks at).
LatestKey(lg) ==
  LET ks == SortKeysAsc(DOMAIN lg)
  IN IF ks = <<>> THEN <<>> ELSE ks[Len(ks)]

\* Object.entries(obj).sort(descending by key): sequence of <<key, value>>.
EntriesDesc(obj) ==
  LET ks == SortKeysDesc(DOMAIN obj)
  IN [i \in 1..Len(ks) |-> <<ks[i], obj[ks[i]]>>]

\* ------------------------------------------------------------- storage
\* The value of the in-memory collection as chrome.storage copies it:
\* day key -> (time key -> text), identities dropped.
Serialize(lg, hp) == [d \in {x \in DOMAIN lg : lg[x] > 0} |-> hp[lg[d]]]

\* The day keys of the in-memory collection whose value is not an object
\* but a number, with that number (a value -n in lg stands for the
\* number n, a positive one for a reference to an object).
SerializeNums(lg) == [d \in {x \in DOMAIN lg : lg[x] < 0} |-> 0 - lg[d]]

\* Object.keys / Object.entries of a value: the properties of an object,
\* none for a number.
Props(hp, ref) == IF ref > 0 THEN hp[ref] ELSE EmptyObj

\* The objects created when a stored collection is handed to the callback:
\* one fresh object per day, in ascending key order.
Deserialize(val, nums) ==
  LET ks == SortKeysAsc(DOMAIN val)
  IN [logs |-> [d \in (DOMAIN val) \cup (DOMAIN nums) |->
                  IF d \in DOMAIN nums THEN 0 - nums[d]
                  ELSE CHOOSE i \in 1..Len(ks) : ks[i] = d],
      heap |-> [i \in 1..Len(ks) |-> val[ks[i]]]]

\* Day keys and a time key of collections left by earlier days' sessions.
DayToday == DateString(StartInstant)
DayBefore == DateString(StartInstant - 86400)
OldTime == ClockString(8 * 3600 + 15 * 60)

\* What the storage can hold when the first modelled session opens:
\* nothing, an empty collection, earlier days only, or today's key.
PersistedChoices ==
  { [has |-> FALSE, logs |-> EmptyObj, nums |-> EmptyObj,
     currentLog |-> EmptyObj],
    [has |-> TRUE, logs |-> EmptyObj, nums |-> EmptyObj,
     currentLog |-> EmptyObj],
    [has |-> TRUE, logs |-> (DayBefore :> (OldTime :> <<ChA>>)),
     nums |-> EmptyObj, currentLog |-> (OldTime :> <<ChA>>)],
    [has |-> TRUE, logs |-> (DayToday :> (OldTime :> <<ChB>>)),
     nums |-> EmptyObj, currentLog |-> (OldTime :> <<ChB>>)] }

\* Stored collections that are not mappings of day logs: today's entry is
\* the number 1, alone or beside an earlier day's log.
MalformedChoices ==
  { [has |-> TRUE, logs |-> EmptyObj, nums |-> (DayToday :> 1),
     currentLog |-> EmptyObj],
    [has |-> TRUE, logs |-> (DayBefore :> (OldTime :> <<ChA>>)),
     nums |-> (DayToday :> 1), currentLog |-> EmptyObj] }

Variants == {"popup", "part_000"}
Keys == {"Enter", "a"}

VARIABLES
  variant,     \* which of the two source files runs
  tz,          \* offset of local time from UTC, minutes
  now,         \* the clock, seconds since the epoch (UTC)
  ticks,       \* number of clock advances so far
  phase,       \* "loading" (get issued), "ready" (callback ran), "closed"
  session,     \* number of panel sessions opened so far
  logs,        \* let logs: day key -> identity of that day's object (-n: the number n)
  heap,        \* identity -> day log object (time key -> text)
  currentLog,  \* let currentLog: identity of an object, 0 for null, -n for the number n
  todayKey,    \* const todayKey of the callback, "" before it ran
  stored,      \* chrome.storage.local: [has, logs, currentLog]
  persisted,   \* history: what the storage held before the first session
  lastSet,     \* argument of the latest chrome.storage.local.set call
  dom,         \* lists, disabled flags and hidden classes of the page
  effects,     \* page and storage calls of the handler that ran last
  accepted,    \* history: day key -> time key -> texts given to logEntry
  faults,      \* number of storage requests that may still fail
  submits      \* history: number of logEntry calls

vars == << variant, tz, now, ticks, phase, session, logs, heap, currentLog,
           todayKey, stored, persisted, lastSet, dom, effects, accepted,
           faults, submits >>


\* ------------------------------------------------------- heap helpers
\* The heap with one more object, the literal {}; its identity is Len + 1.
NewObj(hp) == [i \in 1..(Len(hp) + 1) |-> IF i <= Len(hp) THEN hp[i] ELSE EmptyObj]

\* result.logs || {} : the stored collection as fresh objects, or {}.
LoadLogs(st) ==
  IF st.has THEN Deserialize(st.logs, st.nums) ELSE [logs |-> EmptyObj, heap |-> <<>>]

\* ------------------------------------------ the storage-load callback
\* Mutant of InitCallbackPopup: currentLog is always the fallback {}.
InitCallbackPopupFresh(st, t, z) ==
  LET l0      == LoadLogs(st)
      latest  == LatestKey(l0.logs)
      today   == ToISOStringSlice10(t, z)
      l1      == IF ~TruthyStr(latest)
                 THEN [logs |-> Put(l0.logs, today, Len(l0.heap) + 1),
                       heap |-> NewObj(l0.heap)]
                 ELSE l0
  IN [logs |-> l1.logs, heap |-> NewObj(l1.heap),
      currentLog |-> Len(l1.heap) + 1, todayKey |-> today]

\* src/popup.js: today's object is created only when the collection has no
\* key at all; currentLog falls back to a fresh {} that logs does not hold.
InitCallbackPopup(st, t, z) ==
  LET l0      == LoadLogs(st)
      latest  == LatestKey(l0.logs)
      today   == ToISOStringSlice10(t, z)
      l1      == IF ~TruthyStr(latest)
                 THEN [logs |-> Put(l0.logs, today, Len(l0.heap) + 1),
                       heap |-> NewObj(l0.heap)]
                 ELSE l0
  IN IF today \in DOMAIN l1.logs
     THEN [logs |-> l1.logs, heap |-> l1.heap,
           currentLog |-> l1.logs[today], todayKey |-> today]
     ELSE [logs |-> l1.logs, heap |-> NewObj(l1.heap),
           currentLog |-> Len(l1.heap) + 1, todayKey |-> today]

\* Mutant of InitCallbackPart000: today's object is never put into logs;
\* currentLog falls back to an object of its own.
InitCallbackDetached(st, t, z) ==
  LET l0    == LoadLogs(st)
      today == ToISOStringSlice10(t, z)
  IN IF today \in DOMAIN l0.logs
     THEN [logs |-> l0.logs, heap |-> l0.heap,
           currentLog |-> l0.logs[today], todayKey |-> today]
     ELSE [logs |-> l0.logs, heap |-> NewObj(l0.heap),
           currentLog |-> Len(l0.heap) + 1, todayKey |-> today]

\* src/unnamed/part_000: today's object is created whenever logs lacks it
\* and currentLog is always taken from logs.
InitCallbackPart000(st, t, z) ==
  LET l0      == LoadLogs(st)
      today   == ToISOStringSlice10(t, z)
      l1      == IF today \notin DOMAIN l0.logs
                 THEN [logs |-> Put(l0.logs, today, Len(l0.heap) + 1),
                       heap |-> NewObj(l0.heap)]
                 ELSE l0
  IN [logs |-> l1.logs, heap |-> l1.heap,
      currentLog |-> l1.logs[today], todayKey |-> today]

InitCallback(v, st, t, z) ==
  IF v = "popup" THEN InitCallbackPopup(st, t, z) ELSE InitCallbackPart000(st, t, z)

\* ------------------------------------------------------------ logEntry
\* Mutant of LogEntryHeap: an occupied time slot keeps its text.
LogEntryHeapKeepFirst(hp, cl, tk, newLog) ==
  IF Falsy(hp[cl], tk) THEN [hp EXCEPT ![cl] = Put(@, tk, newLog)] ELSE hp

\* Mutant of LogEntryHeap: blank text is dropped inside logEntry.
LogEntryHeapGuarded(hp, cl, tk, newLog) ==
  IF Trim(newLog) = <<>> THEN hp ELSE [hp EXCEPT ![cl] = Put(@, tk, newLog)]

\* Mutant of LogEntryHeap: the day's log is replaced by the new entry.
LogEntryHeapReplace(hp, cl, tk, newLog) ==
  IF cl < 0 THEN hp ELSE [hp EXCEPT ![cl] = Put(EmptyObj, tk, newLog)]

\* The body of logEntry up to saveState(): the heap after
\* currentLog[currentTime] = newLog.
LogEntryHeap(hp, cl, tk, newLog) ==
  IF cl < 0
  THEN hp  \* a property assignment on a number is dropped (sloppy mode)
  ELSE LET h1 == IF Falsy(hp[cl], tk)
                 THEN [hp EXCEPT ![cl] = Put(@, tk, <<>>)]
                 ELSE hp
       IN [h1 EXCEPT ![cl] = Put(@, tk, newLog)]

\* ------------------------------------------------------- updateUIState
\* Mutant of UpdateUIState: the add button is never disabled.
UpdateUIStateAddEnabled(lg, hp, cl, d) ==
  LET hasCurrentLog == Cardinality(DOMAIN Props(hp, cl)) > 0
      hasLogs       == Cardinality(DOMAIN lg) > 0
      days          == SortKeysDesc(DOMAIN lg)
  IN [d EXCEPT
        !.addDisabled  = FALSE,
        !.showDisabled = ~hasLogs,
        !.todayList    = IF hasCurrentLog THEN EntriesDesc(Props(hp, cl)) ELSE <<>>,
        !.allList      = IF hasLogs
                         THEN [i \in 1..Len(days) |->
                                 [day |-> days[i],
                                  entries |-> EntriesDesc(Props(hp, lg[days[i]]))]]
                         ELSE <<>>]

\* The lists and the disabled flags updateUIState leaves in the page.
UpdateUIState(lg, hp, cl, d) ==
  LET hasCurrentLog == Cardinality(DOMAIN Props(hp, cl)) > 0
      hasLogs       == Cardinality(DOMAIN lg) > 0
      days          == SortKeysDesc(DOMAIN lg)
  IN [d EXCEPT
        !.addDisabled  = ~hasCurrentLog,
        !.showDisabled = ~hasLogs,
        !.todayList    = IF hasCurrentLog THEN EntriesDesc(Props(hp, cl)) ELSE <<>>,
        !.allList      = IF hasLogs
                         THEN [i \in 1..Len(days) |->
                                 [day |-> days[i],
                                  entries |-> EntriesDesc(Props(hp, lg[days[i]]))]]
                         ELSE <<>>]

\* ----------------------------------------------------------- saveState
\* The argument of chrome.storage.local.set({ logs, currentLog }).
Payload(lg, hp, cl) ==
  [logs |-> Serialize(lg, hp), nums |-> SerializeNums(lg),
   currentLog |-> Props(hp, cl)]

\* The calls saveState makes, in order.
SaveStateEffects == << "set", "render" >>

\* chrome.storage.local.set(p): the storage takes the value or the write
\* fails.  Requests are served in the order issued and the page never looks
\* at the outcome, so the write is resolved where it is issued.
StorageSet(p) ==
  \E ok \in BOOLEAN :
    /\ ok \/ faults > 0
    /\ stored' = IF ok
                 THEN [has |-> TRUE, logs |-> p.logs, nums |-> p.nums,
                       currentLog |-> p.currentLog]
                 ELSE stored
    /\ faults' = IF ok THEN faults ELSE faults - 1

\* Mutant of SaveState: the redraw waits for the write and is skipped when
\* the write fails.
SaveStateConfirmed(lg, hp, cl, pre) ==
  /\ lastSet' = Payload(lg, hp, cl)
  /\ StorageSet(Payload(lg, hp, cl))
  /\ dom' = IF faults' < faults THEN dom ELSE UpdateUIState(lg, hp, cl, dom)
  /\ effects' = pre \o SaveStateEffects

\* saveState(): issue the write, then redraw from the in-memory state.
\* pre: the calls the running handler has made before.
SaveState(lg, hp, cl, pre) ==
  /\ lastSet' = Payload(lg, hp, cl)
  /\ StorageSet(Payload(lg, hp, cl))
  /\ dom' = UpdateUIState(lg, hp, cl, dom)
  /\ effects' = pre \o SaveStateEffects

\* ------------------------------------------------------------- initial
\* The page as index.html delivers it: the all-history section hidden,
\* both lists empty, the buttons enabled (no element is disabled before
\* updateUIState has run).
InitialDom ==
  [todayList |-> <<>>, allList |-> <<>>, addDisabled |-> FALSE,
   showDisabled |-> FALSE, todayHidden |-> FALSE, allHidden |-> TRUE]

InitWith(choices) ==
  /\ variant \in Variants
  /\ tz \in TzOffsets
  /\ now = StartInstant
  /\ ticks = 0
  /\ phase = "loading"
  /\ session = 1
  /\ logs = EmptyObj
  /\ heap = <<>>
  /\ currentLog = 0
  /\ todayKey = <<>>
  /\ stored \in choices
  /\ persisted = stored
  /\ lastSet = [logs |-> EmptyObj, nums |-> EmptyObj, currentLog |-> EmptyObj]
  /\ dom = InitialDom
  /\ effects = <<>>
  /\ accepted = EmptyObj
  /\ submits = 0

InitPage == InitWith(PersistedChoices)

\* ------------------------------------------------------------- actions
\* chrome.storage.local.get delivers its result: the callback runs.
\* A read that failed sets chrome.runtime.lastError and calls back with no
\* argument: result.logs raises a TypeError and the callback ends there.
LoadCallback ==
  /\ phase = "loading"
  /\ \/ LET r == InitCallback(variant, stored, now, tz)
        IN /\ logs' = r.logs
           /\ heap' = r.heap
           /\ currentLog' = r.currentLog
           /\ todayKey' = r.todayKey
           /\ SaveState(r.logs, r.heap, r.currentLog, <<>>)
     \/ /\ faults > 0
        /\ faults' = faults - 1
        /\ effects' = << "TypeError" >>
        /\ UNCHANGED << logs, heap, currentLog, todayKey, stored, lastSet,
                        dom >>
  /\ phase' = "ready"
  /\ UNCHANGED << variant, persisted, tz, now, ticks, session, accepted,
                  submits >>

\* The history acc with the text x appended to those logEntry was given
\* for day d and time key tk.
Recorded(acc, d, tk, x) ==
  LET day == IF d \in DOMAIN acc THEN acc[d] ELSE EmptyObj
      old == IF tk \in DOMAIN day THEN day[tk] ELSE <<>>
  IN Put(acc, d, Put(day, tk, Append(old, x)))

\* logEntry(newLog); pre: the calls the handler has made before.
LogEntry(newLog, pre) ==
  IF currentLog = 0
  THEN \* currentLog[currentTime] on null: TypeError, the handler ends
       /\ effects' = pre \o << "TypeError" >>
       /\ UNCHANGED << variant, persisted, tz, now, ticks, phase, session, logs, heap,
                       currentLog, todayKey, stored, lastSet, dom, accepted,
                       faults, submits >>
  ELSE LET tk == ToTimeStringSlice8(now, tz)
           h2 == LogEntryHeap(heap, currentLog, tk, newLog)
       IN /\ submits < MaxSubmits
          /\ heap' = h2
          /\ SaveState(logs, h2, currentLog, pre)
          /\ accepted' = Recorded(accepted, todayKey, tk, newLog)
          /\ submits' = submits + 1
          /\ UNCHANGED << variant, persisted, tz, now, ticks, phase, session, logs,
                          currentLog, todayKey >>

\* The handler returns having changed nothing; pre: the calls it has made.
Ignored(pre) ==
  /\ effects' = pre
  /\ UNCHANGED << variant, persisted, tz, now, ticks, phase, session, logs, heap,
                  currentLog, todayKey, stored, lastSet, dom, accepted,
                  faults, submits >>

\* Mutant of Submit: the value is tested and logged without trim().
SubmitNoTrim(value, pre) ==
  IF TruthyStr(value) THEN LogEntry(value, pre) ELSE Ignored(pre)

\* const newLog = (logInput.value || "").trim(); if (newLog) logEntry(newLog)
Submit(value, pre) ==
  LET newLog == Trim(IF TruthyStr(value) THEN value ELSE <<>>)
  IN IF TruthyStr(newLog) THEN LogEntry(newLog, pre) ELSE Ignored(pre)

\* logInput "keydown" listener
Keydown(key, shift, value) ==
  /\ phase \in {"loading", "ready"}
  /\ IF key = "Enter" /\ ~shift
     THEN Submit(value, << "preventDefault" >>)
     ELSE Ignored(<<>>)

\* The textarea values a key press can tell apart: the listener reads the
\* value only for Enter without Shift.
KeydownValues(key, shift) ==
  IF key = "Enter" /\ ~shift THEN InputValues ELSE { <<>> }

\* addLog "click" listener; a disabled button dispatches no click.
Click(value) ==
  /\ phase \in {"loading", "ready"}
  /\ ~dom.addDisabled
  /\ Submit(value, <<>>)

\* The calls showAllLogs and showTodayLogs make, in order.
ShowAllEffects == << "todaySection.classList.add", "allSection.classList.remove" >>
ShowTodayEffects == << "allSection.classList.add", "todaySection.classList.remove" >>

\* Mutant of ShowAllLogs: the today section is left as it is.
ShowAllLogsKeepToday ==
  /\ phase \in {"loading", "ready"}
  /\ ~dom.showDisabled
  /\ dom' = [dom EXCEPT !.allHidden = FALSE]
  /\ effects' = ShowAllEffects
  /\ UNCHANGED << variant, persisted, tz, now, ticks, phase, session, logs, heap,
                  currentLog, todayKey, stored, lastSet, accepted,
                  faults, submits >>

\* showLogs "click" listener
ShowAllLogs ==
  /\ phase \in {"loading", "ready"}
  /\ ~dom.showDisabled
  /\ dom' = [dom EXCEPT !.todayHidden = TRUE, !.allHidden = FALSE]
  /\ effects' = ShowAllEffects
  /\ UNCHANGED << variant, persisted, tz, now, ticks, phase, session, logs, heap,
                  currentLog, todayKey, stored, lastSet, accepted,
                  faults, submits >>

\* showToday "click" listener
ShowTodayLogs ==
  /\ phase \in {"loading", "ready"}
  /\ dom' = [dom EXCEPT !.allHidden = TRUE, !.todayHidden = FALSE]
  /\ effects' = ShowTodayEffects
  /\ UNCHANGED << variant, persisted, tz, now, ticks, phase, session, logs, heap,
                  currentLog, todayKey, stored, lastSet, accepted,
                  faults, submits >>

\* Time passes.
Tick(delta) ==
  /\ ticks < MaxTicks
  /\ now' = now + delta
  /\ ticks' = ticks + 1
  /\ UNCHANGED << variant, persisted, tz, phase, session, logs, heap, currentLog,
                  todayKey, stored, persisted, lastSet, dom, effects, accepted,
                  faults, submits >>

\* The side panel is closed: the page and its variables are gone.
ClosePanel ==
  /\ phase \in {"loading", "ready"}
  /\ phase' = "closed"
  /\ logs' = EmptyObj
  /\ heap' = <<>>
  /\ currentLog' = 0
  /\ todayKey' = <<>>
  /\ dom' = InitialDom
  /\ effects' = <<>>
  /\ UNCHANGED << variant, persisted, tz, now, ticks, session, stored, lastSet,
                  accepted, faults, submits >>

\* The side panel is opened again: DOMContentLoaded runs on a fresh page.
OpenPanel ==
  /\ phase = "closed"
  /\ session < MaxSessions
  /\ session' = session + 1
  /\ phase' = "loading"
  /\ UNCHANGED << variant, persisted, tz, now, ticks, logs, heap, currentLog,
                  todayKey, stored, lastSet, dom, effects, accepted, faults,
                  submits >>

Next ==
  \/ LoadCallback
  \/ \E k \in Keys, sh \in BOOLEAN :
       \E v \in KeydownValues(k, sh) : Keydown(k, sh, v)
  \/ \E v \in InputValues : Click(v)
  \/ ShowAllLogs
  \/ ShowTodayLogs
  \/ \E d \in TickDeltas : Tick(d)
  \/ ClosePanel
  \/ OpenPanel

\* Every storage write succeeds.
Init == InitPage /\ faults = 0

Spec == Init /\ [][Next]_vars

\* Up to MaxFailures storage writes fail.
InitFaults == InitPage /\ faults = MaxFailures

SpecFaults == InitFaults /\ [][Next]_vars

\* One panel session, from DOMContentLoaded until the panel is closed.
NextSession ==
  \/ LoadCallback
  \/ \E k \in Keys, sh \in BOOLEAN :
       \E v \in KeydownValues(k, sh) : Keydown(k, sh, v)
  \/ \E v \in InputValues : Click(v)
  \/ ShowAllLogs
  \/ ShowTodayLogs
  \/ \E d \in TickDeltas : Tick(d)

\* One panel session in which up to MaxFailures storage requests fail.
SpecSessionFaults == InitFaults /\ [][NextSession]_vars

\* One panel session that finds a malformed collection in the storage.
InitMalformed == InitWith(MalformedChoices) /\ faults = MaxFailures

SpecMalformed == InitMalformed /\ [][NextSession]_vars

\* logEntry applied to an arbitrary string, as a caller other than the two
\* listeners would apply it.
DirectLogEntry(text) ==
  /\ phase \in {"loading", "ready"}
  /\ LogEntry(text, <<>>)

\* One panel session in which logEntry is also called directly.
NextDirect ==
  \/ LoadCallback
  \/ \E v \in InputValues : DirectLogEntry(v)
  \/ \E k \in Keys, sh \in BOOLEAN :
       \E v \in KeydownValues(k, sh) : Keydown(k, sh, v)
  \/ \E v \in InputValues : Click(v)
  \/ \E d \in TickDeltas : Tick(d)

SpecDirect == Init /\ [][NextDirect]_vars


\* =============================================================== claims
\* The last element of a non-empty sequence.
Last(q) == q[Len(q)]

\* The time key logEntry uses when it runs in the current state.
TimeKeyNow == ToTimeStringSlice8(now, tz)

\* A step in which the storage-load callback ran.
LoadStep == phase = "loading" /\ phase' = "ready"

\* A step in which logEntry ran to its end.
LogEntryStep == submits' = submits + 1

\* C1: once the storage-load callback has completed, currentLog is the same
\* object as logs[todayKey], so what is written through one is read through
\* the other, whatever the storage held and whatever was logged since.
C1_Aliasing ==
  phase = "ready" =>
    /\ todayKey \in DOMAIN logs
    /\ currentLog = logs[todayKey]
    /\ Serialize(logs, heap)[todayKey] = heap[currentLog]

\* C2: once the storage-load callback has completed, logs has an entry for
\* today's key, also when the stored collection held earlier days only.
C2_TodayPresent ==
  phase = "ready" => \E d \in DOMAIN logs : d = todayKey

\* C3: when every storage write succeeds, every entry logEntry accepted under
\* a day key in an earlier session is in logs under that key right after the
\* storage-load callback of a later session opened on that day.
C3_NoDataLoss ==
  [][ (LoadStep /\ todayKey' \in DOMAIN accepted) =>
        /\ todayKey' \in DOMAIN logs'
        /\ \A t \in DOMAIN accepted[todayKey'] :
             /\ t \in DOMAIN heap'[logs'[todayKey']]
             /\ heap'[logs'[todayKey']][t] = Last(accepted[todayKey'][t]) ]_vars


\* C4: first run.  From a storage with no "logs" key, initialization and one
\* logEntry(text) at time key t leave logs equal to { todayKey: { t: text } }
\* and currentLog the same object as logs[todayKey].
C4_FirstRun ==
  [][ (~persisted.has /\ session = 1 /\ submits = 0 /\ LogEntryStep) =>
        /\ TimeKeyNow \in DOMAIN accepted'[todayKey]
        /\ Serialize(logs', heap') =
             (todayKey :> (TimeKeyNow :> Last(accepted'[todayKey][TimeKeyNow])))
        /\ todayKey \in DOMAIN logs'
        /\ currentLog' = logs'[todayKey] ]_vars

\* Witness of C4: the first session of a first run has logged one entry.
C4_Witness ==
  /\ ~persisted.has /\ session = 1 /\ phase = "ready" /\ submits = 1
  /\ Cardinality(DOMAIN heap[currentLog]) = 1

\* C5: the storage-load callback and every logEntry issue exactly one set(),
\* before the redraw, with the in-memory collection under "logs" and the
\* current-day view under "currentLog"; the latter equals the former's entry
\* for todayKey; a write that succeeds leaves that collection in the storage.
C5_WriteOnMutation ==
  [][ /\ (LoadStep \/ LogEntryStep) =>
           /\ \E i \in 1..Len(effects') :
                /\ i < Len(effects')
                /\ effects'[i] = "set" /\ effects'[i + 1] = "render"
                /\ \A j \in 1..Len(effects') : j # i => effects'[j] # "set"
           /\ LET p == lastSet'
              IN /\ p.logs = Serialize(logs', heap')
                 /\ p.currentLog = heap'[currentLog']
                 /\ todayKey' \in DOMAIN p.logs
                 /\ p.currentLog = p.logs[todayKey']
      /\ (stored' # stored) => (stored'.has /\ stored'.logs = Serialize(logs', heap'))
    ]_vars

\* C6: a logEntry whose time key is already in the current-day log leaves
\* exactly one entry for that key, holding the text of this later call; the
\* pair (key, earlier text) is no longer in today's log as logs holds it.
C6_LastWriteWins ==
  [][ (LogEntryStep /\ TimeKeyNow \in DOMAIN heap[currentLog]) =>
        /\ DOMAIN heap'[currentLog'] = DOMAIN heap[currentLog]
        /\ heap'[currentLog'][TimeKeyNow] = Last(accepted'[todayKey][TimeKeyNow])
        /\ \A d \in DOMAIN logs' :
             logs'[d] = currentLog' =>
               Serialize(logs', heap')[d][TimeKeyNow]
                 = Last(accepted'[todayKey][TimeKeyNow]) ]_vars

\* Witness of C6: two calls of one session fell on one time key, with
\* different texts, and the log holds the second.
C6_Witness ==
  /\ phase = "ready" /\ session = 1 /\ submits = 2
  /\ todayKey \in DOMAIN accepted
  /\ \E t \in DOMAIN heap[currentLog] :
       /\ t \in DOMAIN accepted[todayKey]
       /\ accepted[todayKey][t] = << <<ChA>>, <<ChB>> >>
       /\ heap[currentLog][t] = <<ChB>>

\* Text that is empty or consists of whitespace only.
IsBlank(v) == \A i \in 1..Len(v) : v[i] = SP

\* x is v without its leading and trailing whitespace, and is not empty.
IsTrimmedFormOf(x, v) ==
  \E i, j \in 1..Len(v) :
    /\ i <= j /\ x = SubSeq(v, i, j)
    /\ v[i] # SP /\ v[j] # SP
    /\ \A k \in 1..Len(v) : (k < i \/ k > j) => v[k] = SP

\* A submission of the textarea value v: Enter without Shift, or a click on
\* the add button.
SubmitEvent(v) == Keydown("Enter", FALSE, v) \/ Click(v)

\* C7: a submission whose text is blank changes neither logs nor currentLog
\* nor the page, and issues no write and no redraw; the text an accepted
\* submission stores is the trimmed, non-empty form of the input.
C7_InvalidRejected ==
  [][ /\ (\E v \in InputValues : IsBlank(v) /\ SubmitEvent(v)) =>
           /\ UNCHANGED << logs, heap, currentLog, stored, lastSet, dom >>
           /\ \A i \in 1..Len(effects') : effects'[i] \notin {"set", "render"}
      /\ \A v \in InputValues :
           (~IsBlank(v) /\ currentLog # 0 /\ LogEntryStep /\ SubmitEvent(v)) =>
             /\ TimeKeyNow \in DOMAIN heap'[currentLog]
             /\ IsTrimmedFormOf(heap'[currentLog][TimeKeyNow], v) ]_vars

\* Witness of C7: an entry typed with surrounding blanks was stored trimmed
\* and a blank Enter submission has just been turned down.
C7_Witness ==
  /\ phase = "ready" /\ effects = << "preventDefault" >>
  /\ \E t \in DOMAIN heap[currentLog] :
       /\ heap[currentLog][t] = <<ChB>>
       /\ todayKey \in DOMAIN accepted /\ t \in DOMAIN accepted[todayKey]


Digit(c) == c - Zero

\* Seconds since midnight named by an HH:MM:SS key.
TimeOfDay(k) ==
  (Digit(k[1]) * 10 + Digit(k[2])) * 3600
    + (Digit(k[4]) * 10 + Digit(k[5])) * 60
    + Digit(k[7]) * 10 + Digit(k[8])

\* A number growing with the calendar date named by a YYYY-MM-DD key.
DayOrdinal(k) ==
  (Digit(k[1]) * 1000 + Digit(k[2]) * 100 + Digit(k[3]) * 10 + Digit(k[4])) * 10000
    + (Digit(k[6]) * 10 + Digit(k[7])) * 100
    + Digit(k[9]) * 10 + Digit(k[10])

\* a sorts strictly before b, character by character.
LexLess(a, b) ==
  \E i \in 1..Len(a) :
    /\ i <= Len(b) /\ a[i] < b[i]
    /\ \A j \in 1..(i - 1) : a[j] = b[j]

\* The rendered list es shows each (time key, text) of obj once, newest first.
ShowsNewestFirst(es, obj) ==
  /\ Len(es) = Cardinality(DOMAIN obj)
  /\ { es[i] : i \in 1..Len(es) } = { <<k, obj[k]>> : k \in DOMAIN obj }
  /\ \A i \in 1..(Len(es) - 1) :
       /\ LexLess(es[i + 1][1], es[i][1])
       /\ TimeOfDay(es[i + 1][1]) < TimeOfDay(es[i][1])

\* C9: after every saveState the today list shows each entry of currentLog
\* once in strictly descending time-key order, and the all-history list
\* shows each day key of logs once in strictly descending order, each day
\* with its entries once in strictly descending time-key order; for these
\* keys descending order is newest first.
C9_RenderOrder ==
  phase = "ready" =>
    /\ ShowsNewestFirst(dom.todayList, heap[currentLog])
    /\ Len(dom.allList) = Cardinality(DOMAIN logs)
    /\ { dom.allList[i].day : i \in 1..Len(dom.allList) } = DOMAIN logs
    /\ \A i \in 1..Len(dom.allList) :
         ShowsNewestFirst(dom.allList[i].entries, heap[logs[dom.allList[i].day]])
    /\ \A i \in 1..(Len(dom.allList) - 1) :
         /\ LexLess(dom.allList[i + 1].day, dom.allList[i].day)
         /\ DayOrdinal(dom.allList[i + 1].day) < DayOrdinal(dom.allList[i].day)

\* Witness of C9: two days are listed and today's list has two entries.
C9_Witness ==
  /\ phase = "ready"
  /\ Len(dom.allList) >= 2
  /\ Len(dom.todayList) >= 2

\* The local calendar date, YYYY-MM-DD: the date of the clock that shows
\* the time of day ClockString(t + z * 60).
LocalDateString(t, z) == DateString(t + z * 60)

\* C10: the day key computed by the storage-load callback is the local
\* calendar date at that moment, the date of the clock whose time of day
\* logEntry writes.
C10_LocalDayKey ==
  [][ LoadStep => todayKey' = LocalDateString(now, tz) ]_vars

\* The storage-load callback ended before it reached saveState.
ReadFailedStep == LoadStep /\ \A i \in 1..Len(effects') : effects'[i] # "set"

\* The stored "logs" is missing, or its entry for the day t falls on is
\* not a mapping.
NoUsableLogs(st, t, z) ==
  ~st.has \/ ToISOStringSlice10(t, z) \in DOMAIN st.nums

\* C11: when "logs" is absent from the storage, or its entry for today is
\* not a mapping, or the read failed, the storage-load callback raises no
\* error and leaves logs equal to { todayKey: {} } with currentLog the
\* object logs holds under todayKey.
C11_MalformedAsAbsent ==
  [][ (LoadStep /\ (NoUsableLogs(stored, now, tz) \/ ReadFailedStep)) =>
        /\ \A i \in 1..Len(effects') : effects'[i] # "TypeError"
        /\ DOMAIN logs' = { ToISOStringSlice10(now, tz) }
        /\ currentLog' > 0
        /\ currentLog' = logs'[ToISOStringSlice10(now, tz)]
        /\ heap'[currentLog'] = EmptyObj ]_vars

\* C12: whenever the last thing done was a click on show-all or show-today,
\* exactly one of the two sections is hidden, the one the click did not
\* select; and a step that ends with such a click's calls leaves logs,
\* currentLog and the storage as they were and issues no storage write.
C12_PanelToggle ==
  /\ [](/\ effects = ShowAllEffects => (dom.todayHidden /\ ~dom.allHidden)
        /\ effects = ShowTodayEffects => (dom.allHidden /\ ~dom.todayHidden))
  /\ [][ effects' \in {ShowAllEffects, ShowTodayEffects} =>
           UNCHANGED << logs, heap, currentLog, stored, lastSet >> ]_vars

\* Witness of C12: with an entry logged, show-all was clicked after
\* show-today had put the all-history section away.
C12_Witness ==
  /\ phase = "ready" /\ submits > 0
  /\ effects = ShowAllEffects
  /\ dom.todayHidden /\ ~dom.allHidden
  /\ Len(dom.todayList) > 0

\* C13: todayKey is set by the storage-load callback and by nothing else
\* while the page lives; every logEntry puts its text under that day key
\* of logs, whatever day the clock shows by then, and neither adds a day
\* key nor changes another day's log.
C13_DayFixedAtOpen ==
  [][ /\ (phase = "ready" /\ phase' = "ready") => todayKey' = todayKey
      /\ LogEntryStep =>
           /\ todayKey \in DOMAIN logs'
           /\ TimeKeyNow \in DOMAIN heap'[logs'[todayKey]]
           /\ heap'[logs'[todayKey]][TimeKeyNow]
                = Last(accepted'[todayKey][TimeKeyNow])
           /\ DOMAIN logs' = DOMAIN logs
           /\ \A d \in DOMAIN logs \ {todayKey} :
                heap'[logs'[d]] = heap[logs[d]] ]_vars

\* A step whose saveState issued a write that failed.
WriteFailedStep ==
  /\ LogEntryStep \/ (LoadStep /\ ~ReadFailedStep)
  /\ faults' < faults

\* C14: when the write issued by saveState fails, the storage keeps what
\* it held, no error is raised, the redraw runs, and logs, currentLog and
\* the page are what the same call leaves when the write succeeds: a
\* logEntry's text is in currentLog and is shown in the today list.
C14_FailedWriteUnobserved ==
  [][ WriteFailedStep =>
        /\ stored' = stored
        /\ \A i \in 1..Len(effects') : effects'[i] # "TypeError"
        /\ \E i \in 1..Len(effects') : effects'[i] = "render"
        /\ dom' = UpdateUIState(logs', heap', currentLog', dom)
        /\ LoadStep =>
             LET r == InitCallback(variant, stored, now, tz)
             IN /\ logs' = r.logs /\ heap' = r.heap
                /\ currentLog' = r.currentLog
        /\ LogEntryStep =>
             LET x == Last(accepted'[todayKey][TimeKeyNow])
             IN /\ logs' = logs /\ currentLog' = currentLog
                /\ heap' = LogEntryHeap(heap, currentLog, TimeKeyNow, x)
                /\ heap'[currentLog][TimeKeyNow] = x
                /\ \E i \in 1..Len(dom'.todayList) :
                     dom'.todayList[i] = << TimeKeyNow, x >> ]_vars

\* Witness of C14: an entry whose write failed is in currentLog and on the
\* page, and not in the storage.
C14_Witness ==
  /\ phase = "ready" /\ faults < MaxFailures /\ submits > 0
  /\ \E t \in DOMAIN heap[currentLog] :
       /\ t \notin DOMAIN stored.currentLog
       /\ \E i \in 1..Len(dom.todayList) :
            dom.todayList[i] = << t, heap[currentLog][t] >>

\* The (day key, time key) pairs of a collection.
Pairs(lg, hp) ==
  UNION { { << d, t >> : t \in DOMAIN Props(hp, lg[d]) } : d \in DOMAIN lg }

\* The (day key, time key) pairs of a stored collection.
StoredPairs(val) ==
  UNION { { << d, t >> : t \in DOMAIN val[d] } : d \in DOMAIN val }

\* C15: a logEntry leaves logs' day keys and every object but currentLog
\* as they were, and in currentLog changes the entry at its time key only;
\* while the page lives the (day key, time key) pairs of logs never
\* shrink, and the storage-load callback keeps every pair it was handed.
C15_LogEntryFrame ==
  [][ /\ LogEntryStep =>
           /\ logs' = logs /\ currentLog' = currentLog
           /\ Len(heap') = Len(heap)
           /\ \A i \in 1..Len(heap) : i # currentLog => heap'[i] = heap[i]
           /\ DOMAIN heap'[currentLog]
                = (DOMAIN heap[currentLog]) \cup {TimeKeyNow}
           /\ \A t \in DOMAIN heap[currentLog] :
                t # TimeKeyNow => heap'[currentLog][t] = heap[currentLog][t]
      /\ (phase = "ready" /\ phase' = "ready") =>
           Pairs(logs, heap) \subseteq Pairs(logs', heap')
      /\ (LoadStep /\ ~ReadFailedStep /\ stored.has) =>
           /\ StoredPairs(stored.logs) \subseteq Pairs(logs', heap')
           /\ \A d \in DOMAIN stored.logs :
                heap'[logs'[d]] = stored.logs[d] ]_vars

\* Witness of C15: two entries were logged into a collection that also
\* holds an earlier day's log, which is as the storage delivered it.
C15_Witness ==
  /\ phase = "ready" /\ session = 1 /\ submits = 2
  /\ Cardinality(DOMAIN heap[currentLog]) = 2
  /\ DayBefore \in DOMAIN logs
  /\ logs[DayBefore] # currentLog
  /\ heap[logs[DayBefore]] = persisted.logs[DayBefore]

\* C16: whatever the order of the storage-load callback and the keydown
\* and click events, no handler raises a TypeError by reading a property
\* of currentLog while it is null, and a non-empty submission made before
\* the callback has run is not dropped.
C16_NoNullDereference ==
  [][ /\ \A i \in 1..Len(effects') : effects'[i] # "TypeError"
      /\ \A v \in InputValues :
           (phase = "loading" /\ ~IsBlank(v) /\ SubmitEvent(v)) =>
             LogEntryStep ]_vars

\* C17: once saveState has run, the all-history list has a heading for
\* todayKey and the (time key, text) pairs listed under it are, in order,
\* those of the today list.
C17_PanelsAgree ==
  phase = "ready" =>
    \E i \in 1..Len(dom.allList) :
      /\ dom.allList[i].day = todayKey
      /\ dom.allList[i].entries = dom.todayList

SameGuardOutcome(st, t, z) ==
  \/ ~st.has
  \/ (DOMAIN st.logs) \cup (DOMAIN st.nums) = {}
  \/ ToISOStringSlice10(t, z) \in DOMAIN st.logs

\* C19: when the stored collection is absent, empty or holds todayKey,
\* the storage-load callbacks of src/popup.js and src/unnamed/part_000
\* leave the same logs, currentLog and todayKey, write the same payload
\* and draw the same lists, and the callback that ran left exactly that;
\* every later step of the session is taken by code the two files share.
C19_VariantsAgree ==
  [][ (LoadStep /\ SameGuardOutcome(stored, now, tz)) =>
        LET a == InitCallbackPopup(stored, now, tz)
            b == InitCallbackPart000(stored, now, tz)
        IN /\ a = b
           /\ Payload(a.logs, a.heap, a.currentLog)
                = Payload(b.logs, b.heap, b.currentLog)
           /\ UpdateUIState(a.logs, a.heap, a.currentLog, dom)
                = UpdateUIState(b.logs, b.heap, b.currentLog, dom)
           /\ logs' = b.logs /\ heap' = b.heap
           /\ currentLog' = b.currentLog /\ todayKey' = b.todayKey
           /\ lastSet' = Payload(b.logs, b.heap, b.currentLog)
           /\ dom' = UpdateUIState(b.logs, b.heap, b.currentLog, dom) ]_vars

\* Witness of C19: src/popup.js, started on a collection that holds
\* today's key, has logged an entry into the object logs holds for today.
C19_Witness ==
  /\ variant = "popup" /\ phase = "ready" /\ session = 1 /\ submits > 0
  /\ persisted.has /\ todayKey \in DOMAIN persisted.logs
  /\ currentLog = logs[todayKey]
  /\ Cardinality(DOMAIN heap[currentLog]) = 2

====
